---- MODULE Spec2Model ----
\* Model of the chain-plays pipeline: chain_listener (poller), vote_aggregator
\* (windowed variant only) and the emulator loop of main(), for the three
\* variants chainplays.py (windowed), chainplaysChaos.py (chaos) and
\* chainplaysTESTING.py (minimal).  PRINT_ONLY is False in all three, so the
\* print-only branch of main() is never taken and is not modelled.  The RPC
\* node and the emulator are outside the program: the head, the logs and the
\* errors the node returns and the step at which the emulator signals the end
\* are chosen freely.
EXTENDS Integers, Sequences, FiniteSets

\* ------------------------------------------------------------------ bounds
MaxBlock == 2      \* block numbers the RPC node reports are 0..MaxBlock
MaxBatch == 3      \* most logs one get_logs call returns
MaxVotes == 3      \* most logs the node delivers over a run of the pipeline threads
MaxSystemVotes == 1 \* the same, for a run of the pipeline and the emulator loop together
MaxSystemPassVotes == 2 \* the same, for such a run of a variant without aggregator thread
MaxSystemBlock == 0 \* block numbers the node reports in such a run are 0..MaxSystemBlock
MaxWeightedVotes == 2 \* most logs the node delivers in a run whose logs differ in weight

\* --------------------------------------------------------- program constants
WARMUP_TICKS == 240

Variants == {"windowed", "chaos", "minimal"}

\* Command indices carried by the logs: four mapped ones and 8, which the
\* uint8 field can carry but CMD_INDEX_TO_BUTTON does not map.
CmdVals == {0, 2, 5, 8}
Weights == {1}
MixedWeights == {1, 3}

\* A raw log: either one get_event_data decodes into (cmd, weight), or one
\* on which get_event_data raises.
BadLog == [decodable |-> FALSE, cmd |-> 0, weight |-> 0]
LogsOf(ws) == {[decodable |-> TRUE, cmd |-> c, weight |-> w] : c \in CmdVals, w \in ws}
                \cup {BadLog}
LogVals == LogsOf(Weights)

Buttons == {"up", "down", "left", "right", "a", "b", "start", "select"}
NoButton == "None"

\* the table with the entries of 4 and 5 exchanged
CMD_INDEX_TO_BUTTON_swapped(c) ==
  CASE c = 0 -> "up"
    [] c = 1 -> "down"
    [] c = 2 -> "left"
    [] c = 3 -> "right"
    [] c = 4 -> "b"
    [] c = 5 -> "a"
    [] c = 6 -> "start"
    [] c = 7 -> "select"
    [] OTHER -> NoButton

\* CMD_INDEX_TO_BUTTON.get(cmd): the button name, or None for an unmapped index
CMD_INDEX_TO_BUTTON_get(c) ==
  CASE c = 0 -> "up"
    [] c = 1 -> "down"
    [] c = 2 -> "left"
    [] c = 3 -> "right"
    [] c = 4 -> "a"
    [] c = 5 -> "b"
    [] c = 6 -> "start"
    [] c = 7 -> "select"
    [] OTHER -> NoButton

\* the put without the `if btn:` test
AlwaysTruthy(b) == TRUE

\* `if btn:` - None is falsy, every button name is a non-empty string
Truthy(b) == b # NoButton

\* Steps the button is held / released for, per variant
HoldTicks(v) == IF v = "windowed" THEN 6 ELSE 1
ReleaseTicks(v) == IF v = "windowed" THEN 2 ELSE IF v = "minimal" THEN 1 ELSE 0

\* Only chainplaysTESTING.py looks at the value tick() returns
ChecksTick(v) == v = "minimal"

\* ------------------------------------------------------------ Counter (tally)
\* A collections.Counter is a dict: its items in insertion order.
TallyKeys(t) == {t[j].k : j \in 1..Len(t)}

RECURSIVE TallyTotal(_)
TallyTotal(t) == IF t = <<>> THEN 0 ELSE Head(t).n + TallyTotal(Tail(t))

\* tally[cmd] += 1: an existing key keeps its place, a new key goes last
TallyIncrement(t, k) ==
  IF k \in TallyKeys(t)
  THEN [j \in 1..Len(t) |-> IF t[j].k = k THEN [k |-> k, n |-> t[j].n + 1] ELSE t[j]]
  ELSE Append(t, [k |-> k, n |-> 1])

\* a maximum that a later item with an equal count replaces
RECURSIVE MaxLast(_, _)
MaxLast(best, rest) ==
  IF rest = <<>> THEN best
  ELSE IF Head(rest).n >= best.n THEN MaxLast(Head(rest), Tail(rest))
  ELSE MaxLast(best, Tail(rest))

\* max(items, key=count): the first item, in iteration order, whose count no
\* later item exceeds strictly and no earlier item reaches
RECURSIVE MaxFirst(_, _)
MaxFirst(best, rest) ==
  IF rest = <<>> THEN best
  ELSE IF Head(rest).n > best.n THEN MaxFirst(Head(rest), Tail(rest))
  ELSE MaxFirst(best, Tail(rest))

\* the first key of the tally, whatever its count
FirstKey(t) == Head(t).k

\* tally.most_common(1)[0][0], for a non-empty tally
MostCommon(t) == MaxFirst(Head(t), Tail(t)).k

\* ---------------------------------------------------------------- sequences
RECURSIVE SeqsUpTo(_, _)
SeqsUpTo(S, n) ==
  IF n = 0 THEN {<<>>}
  ELSE LET shorter == SeqsUpTo(S, n - 1)
       IN shorter \cup {Append(s, x) : s \in {q \in shorter : Len(q) = n - 1}, x \in S}

Min(a, b) == IF a < b THEN a ELSE b

VARIABLES
  variant,      \* which of the three programs runs
  \* the RPC node
  top,          \* the highest block number it reports
  wset,         \* the weights its logs carry
  \* chain_listener thread
  lpc,          \* its position
  last_block,   \* the poll cursor
  latest,       \* the head read in this cycle
  logs,         \* the logs of this cycle's batch not yet iterated
  cmd,          \* the command index of the log being applied
  \* shared
  tally_lock,   \* "free" or the name of the holder
  tally,        \* the Counter
  actions_q,    \* the queue of button names
  \* vote_aggregator thread
  apc,          \* its position
  cmd_idx,      \* the winner it read
  \* main thread
  mpc,          \* its position
  i,            \* the counter of the for loop it is in
  btn,          \* the action it dequeued
  pressed,      \* the buttons the emulator holds down
  stopped,      \* the emulator has signalled termination (tick() returned False)
  \* history
  supply,       \* number of logs the node will still deliver
  decoded,      \* command indices in the order they were decoded
  enqueued,     \* every button ever put on the queue, in order
  applied,      \* every button the main loop has pressed, in order
  counted,      \* number of tally increments
  drained,      \* number of votes the aggregator ticks have read and cleared
  snapshot,     \* the tally the running aggregator tick read
  ticks,        \* aggregator ticks that found a non-empty tally
  cycleStart,   \* the cursor, increments and puts when the running cycle began
  query,        \* the block range of the running cycle's get_logs call, <<>> before it
  lastError,    \* what raised in the last abandoned cycle, "none" once a cycle succeeded
  errCursor,    \* the cursor when that cycle began, -1 once a cycle succeeded
  window,       \* the command indices tallied since the last clear, in order
  decodedWeights, \* the weights of the decoded logs, in the order of decoded
  startHead,    \* the head read at start-up while clean, -1 before and after
  clean,        \* no cycle has been abandoned so far
  queried,      \* the ranges of the get_logs calls that returned, while clean
  calls         \* the emulator calls of the running iteration of the main loop

env == <<variant, top, wset>>
avars == <<apc, cmd_idx, snapshot, ticks, drained, window>>
mvars == <<mpc, i, btn, pressed, stopped, applied, calls>>
lcover == <<startHead, clean, queried>>
lhist == <<supply, decoded, decodedWeights, cycleStart, query, lastError, errCursor, lcover>>
vars == <<variant, top, wset, lpc, last_block, latest, logs, cmd, tally_lock, tally, actions_q,
          apc, cmd_idx, mpc, i, btn, pressed, stopped, supply, decoded, enqueued,
          applied, counted, drained, snapshot, ticks, cycleStart, query, lastError,
          errCursor, window, decodedWeights, startHead, clean, queried, calls>>

Start(votes, passVotes, blocks, ws) ==
  /\ variant \in Variants
  /\ top = blocks
  /\ wset = ws
  /\ lpc = "start"
  /\ last_block = 0
  /\ latest = 0
  /\ logs = <<>>
  /\ cmd = 0
  /\ tally_lock = "free"
  /\ tally = <<>>
  /\ actions_q = <<>>
  /\ apc = IF variant = "windowed" THEN "sleep" ELSE "absent"
  /\ cmd_idx = 0
  /\ mpc = "warmup"
  /\ i = 0
  /\ btn = NoButton
  /\ pressed = {}
  /\ stopped = FALSE
  /\ supply = IF variant = "windowed" THEN votes ELSE passVotes
  /\ decoded = <<>>
  /\ enqueued = <<>>
  /\ applied = <<>>
  /\ counted = 0
  /\ drained = 0
  /\ snapshot = <<>>
  /\ ticks = 0
  /\ cycleStart = [cursor |-> 0, counted |-> 0, puts |-> 0]
  /\ query = <<>>
  /\ lastError = "none"
  /\ errCursor = -1
  /\ window = <<>>
  /\ decodedWeights = <<>>
  /\ startHead = -1
  /\ clean = TRUE
  /\ queried = <<>>
  /\ calls = <<>>

Init == Start(MaxSystemVotes, MaxSystemPassVotes, MaxSystemBlock, Weights)
InitPipeline == Start(MaxVotes, MaxVotes, MaxBlock, Weights)
InitWeighted == Start(MaxWeightedVotes, MaxWeightedVotes, MaxBlock, MixedWeights)

\* ------------------------------------------------------------ chain_listener
\* what a cycle of the while loop starts from
CycleBegins(cursor) ==
  /\ cycleStart' = [cursor |-> cursor, counted |-> counted, puts |-> Len(enqueued)]
  /\ query' = <<>>

\* last_block = w3.eth.block_number, before the loop and outside its try
ListenerStart ==
  /\ lpc = "start"
  /\ \E h \in 0..top :
       /\ last_block' = h
       /\ startHead' = h
       /\ CycleBegins(h)
  /\ lpc' = "head"
  /\ UNCHANGED <<clean, queried, decodedWeights, env, latest, logs, cmd, tally_lock, tally, actions_q, enqueued,
                 counted, avars, mvars, supply, decoded, lastError, errCursor>>

\* the same read raising: nothing catches it, the thread ends
ListenerStartFails ==
  /\ lpc = "start"
  /\ lpc' = "dead"
  /\ lastError' = "start"
  /\ UNCHANGED <<lcover, decodedWeights, env, last_block, latest, logs, cmd, tally_lock, tally, actions_q,
                 enqueued, counted, avars, mvars, supply, decoded, cycleStart, query,
                 errCursor>>

\* an except branch that moves the cursor past the head it read
AbandonAdvancing(what) ==
  /\ lpc' = "backoff"
  /\ lastError' = what
  /\ errCursor' = cycleStart.cursor
  /\ clean' = FALSE
  /\ queried' = <<>>
  /\ startHead' = -1
  /\ last_block' = latest + 1

\* the except branch: the cycle is abandoned, the cursor is not assigned
Abandon(what) ==
  /\ lpc' = "backoff"
  /\ lastError' = what
  /\ errCursor' = cycleStart.cursor
  /\ clean' = FALSE
  /\ queried' = <<>>
  /\ startHead' = -1
  /\ UNCHANGED <<last_block>>

\* the head read without the `if latest >= last_block` test
ReadHeadUnguarded ==
  /\ lpc = "head"
  /\ \E h \in 0..top :
       /\ latest' = h
       /\ lpc' = "get_logs"
  /\ UNCHANGED <<lcover, decodedWeights, env, last_block, logs, cmd, tally_lock, tally,
                 actions_q, enqueued, counted, avars, mvars, supply, decoded, cycleStart,
                 query, lastError, errCursor>>

\* latest = w3.eth.block_number; if latest >= last_block
ReadHead ==
  /\ lpc = "head"
  /\ \E h \in 0..top :
       /\ latest' = h
       /\ lpc' = IF h >= last_block THEN "get_logs" ELSE "sleep"
  /\ UNCHANGED <<lcover, decodedWeights, env, last_block, logs, cmd, tally_lock, tally, actions_q, enqueued,
                 counted, avars, mvars, supply, decoded, cycleStart, query, lastError,
                 errCursor>>

ReadHeadFails ==
  /\ lpc = "head"
  /\ Abandon("head")
  /\ UNCHANGED <<decodedWeights, env, latest, logs, cmd, tally_lock, tally, actions_q, enqueued,
                 counted, avars, mvars, supply, decoded, cycleStart, query>>

\* logs = w3.eth.get_logs({... "fromBlock": last_block, "toBlock": latest})
GetLogs ==
  /\ lpc = "get_logs"
  /\ \E batch \in SeqsUpTo(LogsOf(wset), Min(MaxBatch, supply)) :
       /\ logs' = batch
       /\ supply' = supply - Len(batch)
  /\ query' = [fromBlock |-> last_block, toBlock |-> latest]
  /\ queried' = IF clean
                THEN Append(queried, [fromBlock |-> last_block, toBlock |-> latest])
                ELSE queried
  /\ lpc' = "iterate"
  /\ UNCHANGED <<startHead, clean, decodedWeights, env, last_block, latest, cmd, tally_lock, tally, actions_q,
                 enqueued, counted, avars, mvars, decoded, cycleStart, lastError,
                 errCursor>>

GetLogsFails ==
  /\ lpc = "get_logs"
  /\ Abandon("get_logs")
  /\ UNCHANGED <<decodedWeights, env, latest, logs, cmd, tally_lock, tally, actions_q, enqueued,
                 counted, avars, mvars, supply, decoded, cycleStart, query>>

\* for log in logs: evt = get_event_data(...); cmd = int(evt["args"]["cmd"])
Decode ==
  /\ lpc = "iterate"
  /\ logs # <<>>
  /\ Head(logs).decodable
  /\ cmd' = Head(logs).cmd
  /\ decoded' = Append(decoded, Head(logs).cmd)
  /\ decodedWeights' = Append(decodedWeights, Head(logs).weight)
  /\ logs' = Tail(logs)
  /\ lpc' = IF variant = "windowed" THEN "lock" ELSE "put"
  /\ UNCHANGED <<lcover, env, last_block, latest, tally_lock, tally, actions_q, enqueued,
                 counted, avars, mvars, supply, cycleStart, query, lastError, errCursor>>

\* get_event_data raises: the for loop is left for the except branch; logs
\* keeps the log that raised and the ones after it, none of which is iterated
DecodeFails ==
  /\ lpc = "iterate"
  /\ logs # <<>>
  /\ ~Head(logs).decodable
  /\ Abandon("decode")
  /\ UNCHANGED <<decodedWeights, env, latest, logs, cmd, tally_lock, tally, actions_q, enqueued,
                 counted, avars, mvars, supply, decoded, cycleStart, query>>

\* a with block that enters whoever holds the lock
LockIgnored == TRUE

\* with tally_lock: (entering)
LockFree == tally_lock = "free"

ListenerAcquire ==
  /\ lpc = "lock"
  /\ LockFree
  /\ tally_lock' = "listener"
  /\ lpc' = "increment"
  /\ UNCHANGED <<env, last_block, latest, logs, cmd, tally, actions_q, enqueued,
                 counted, avars, mvars, lhist>>

\* tally[cmd] += weight
RECURSIVE TallyAdd(_, _, _)
TallyAdd(t, k, w) == IF w = 0 THEN t ELSE TallyAdd(TallyIncrement(t, k), k, w - 1)

ListenerIncrementWeighted ==
  /\ lpc = "increment"
  /\ tally' = TallyAdd(tally, cmd, decodedWeights[Len(decodedWeights)])
  /\ counted' = counted + 1
  /\ window' = Append(window, cmd)
  /\ tally_lock' = "free"
  /\ lpc' = "iterate"
  /\ UNCHANGED <<env, last_block, latest, logs, cmd, actions_q, enqueued, apc,
                 cmd_idx, snapshot, ticks, drained, mvars, lhist>>

\* tally[cmd] += 1, and the end of the with block
ListenerIncrement ==
  /\ lpc = "increment"
  /\ tally' = TallyIncrement(tally, cmd)
  /\ counted' = counted + 1
  /\ window' = Append(window, cmd)
  /\ tally_lock' = "free"
  /\ lpc' = "iterate"
  /\ UNCHANGED <<env, last_block, latest, logs, cmd, actions_q, enqueued, apc,
                 cmd_idx, snapshot, ticks, drained, mvars, lhist>>

\* btn = CMD_INDEX_TO_BUTTON.get(cmd); if btn: actions_q.put(btn)
ListenerPut ==
  /\ lpc = "put"
  /\ LET b == CMD_INDEX_TO_BUTTON_get(cmd)
     IN IF Truthy(b)
        THEN /\ actions_q' = Append(actions_q, b)
             /\ enqueued' = Append(enqueued, b)
        ELSE UNCHANGED <<actions_q, enqueued>>
  /\ lpc' = "iterate"
  /\ UNCHANGED <<env, last_block, latest, logs, cmd, tally_lock, tally, counted,
                 avars, mvars, lhist>>

\* a cursor set to the head itself, so that the next range starts on it again
AdvanceCursorToHead ==
  /\ lpc = "iterate"
  /\ logs = <<>>
  /\ last_block' = latest
  /\ errCursor' = -1
  /\ lastError' = "none"
  /\ lpc' = "sleep"
  /\ UNCHANGED <<lcover, decodedWeights, env, latest, logs, cmd, tally_lock, tally,
                 actions_q, enqueued, counted, avars, mvars, supply, decoded, cycleStart,
                 query>>

\* the for loop is exhausted: last_block = latest + 1
AdvanceCursor ==
  /\ lpc = "iterate"
  /\ logs = <<>>
  /\ last_block' = latest + 1
  /\ errCursor' = -1
  /\ lastError' = "none"
  /\ lpc' = "sleep"
  /\ UNCHANGED <<lcover, decodedWeights, env, latest, logs, cmd, tally_lock, tally, actions_q, enqueued,
                 counted, avars, mvars, supply, decoded, cycleStart, query>>

\* time.sleep(...) at the end of the try block
ListenerSleep ==
  /\ lpc = "sleep"
  /\ lpc' = "head"
  /\ CycleBegins(last_block)
  /\ UNCHANGED <<lcover, decodedWeights, env, last_block, latest, logs, cmd, tally_lock, tally, actions_q,
                 enqueued, counted, avars, mvars, supply, decoded, lastError, errCursor>>

\* print(...); time.sleep(...) in the except branch
ListenerBackoff ==
  /\ lpc = "backoff"
  /\ lpc' = "head"
  /\ CycleBegins(last_block)
  /\ UNCHANGED <<lcover, decodedWeights, env, last_block, latest, logs, cmd, tally_lock, tally, actions_q,
                 enqueued, counted, avars, mvars, supply, decoded, lastError, errCursor>>

Listener ==
  \/ ListenerStart \/ ListenerStartFails
  \/ ReadHead \/ ReadHeadFails
  \/ GetLogs \/ GetLogsFails
  \/ Decode \/ DecodeFails
  \/ ListenerAcquire \/ ListenerIncrement \/ ListenerPut
  \/ AdvanceCursor \/ ListenerSleep \/ ListenerBackoff

\* ----------------------------------------------------------- vote_aggregator
lvars == <<lpc, last_block, latest, logs, cmd, counted, lhist>>

\* time.sleep(interval_ms / 1000.0); with tally_lock: (entering)
AggAcquire ==
  /\ apc = "sleep"
  /\ LockFree
  /\ tally_lock' = "aggregator"
  /\ apc' = "locked"
  /\ UNCHANGED <<env, tally, actions_q, enqueued, cmd_idx, snapshot, ticks, drained,
                 window, lvars, mvars>>

\* an empty tick without the `continue`: it goes on to map the stale winner
AggEmptyFallsThrough ==
  /\ apc = "locked"
  /\ tally = <<>>
  /\ tally_lock' = "free"
  /\ apc' = "emit"
  /\ UNCHANGED <<env, tally, actions_q, enqueued, cmd_idx, snapshot, ticks, drained,
                 window, lvars, mvars>>

\* if not tally: continue
AggEmpty ==
  /\ apc = "locked"
  /\ tally = <<>>
  /\ tally_lock' = "free"
  /\ apc' = "sleep"
  /\ UNCHANGED <<env, tally, actions_q, enqueued, cmd_idx, snapshot, ticks, drained,
                 window, lvars, mvars>>

\* cmd_idx, _ = tally.most_common(1)[0]
AggRead ==
  /\ apc = "locked"
  /\ tally # <<>>
  /\ cmd_idx' = MostCommon(tally)
  /\ snapshot' = tally
  /\ apc' = "clear"
  /\ UNCHANGED <<env, tally_lock, tally, actions_q, enqueued, ticks, drained,
                 window, lvars, mvars>>

\* tally.clear(), and the end of the with block
AggClear ==
  /\ apc = "clear"
  /\ tally' = <<>>
  /\ window' = <<>>
  /\ drained' = drained + TallyTotal(snapshot)
  /\ ticks' = ticks + 1
  /\ tally_lock' = "free"
  /\ apc' = "emit"
  /\ UNCHANGED <<env, actions_q, enqueued, cmd_idx, snapshot, lvars, mvars>>

\* btn = CMD_INDEX_TO_BUTTON.get(cmd_idx); if btn: actions_q.put(btn)
AggEmit ==
  /\ apc = "emit"
  /\ LET b == CMD_INDEX_TO_BUTTON_get(cmd_idx)
     IN IF Truthy(b)
        THEN /\ actions_q' = Append(actions_q, b)
             /\ enqueued' = Append(enqueued, b)
        ELSE UNCHANGED <<actions_q, enqueued>>
  /\ snapshot' = <<>>
  /\ apc' = "sleep"
  /\ UNCHANGED <<env, tally_lock, tally, cmd_idx, ticks, drained, window, lvars,
                 mvars>>

Aggregator == AggAcquire \/ AggEmpty \/ AggRead \/ AggClear \/ AggEmit

\* ------------------------------------------------------------ main (emulator)
pipeline == <<tally_lock, tally, enqueued, avars, lvars>>

\* pyboy.tick(): the step may be the one at which the emulator signals the end
\* of the session; once it has, every later step signals it too
Tick == stopped' \in (IF stopped THEN {TRUE} ELSE BOOLEAN)

\* `if pyboy.tick() is False: return`, where the variant has it
Returns == ChecksTick(variant) /\ stopped'

\* for _ in range(240): pyboy.tick()
WarmupTick ==
  /\ mpc = "warmup"
  /\ i < WARMUP_TICKS
  /\ Tick
  /\ IF Returns THEN mpc' = "done" /\ i' = i
     ELSE /\ i' = i + 1
          /\ mpc' = IF i + 1 = WARMUP_TICKS THEN "get" ELSE "warmup"
  /\ UNCHANGED <<calls, env, actions_q, btn, pressed, applied, pipeline>>

\* a dequeue that reads the head of the queue and leaves it there
DequeuePeeks ==
  /\ mpc = "get"
  /\ actions_q # <<>>
  /\ btn' = Head(actions_q)
  /\ mpc' = "press"
  /\ calls' = <<>>
  /\ UNCHANGED <<env, actions_q, i, pressed, stopped, applied, pipeline>>

\* btn = actions_q.get_nowait()
Dequeue ==
  /\ mpc = "get"
  /\ actions_q # <<>>
  /\ btn' = Head(actions_q)
  /\ actions_q' = Tail(actions_q)
  /\ mpc' = "press"
  /\ calls' = <<>>
  /\ UNCHANGED <<env, i, pressed, stopped, applied, pipeline>>

\* a blocking get(): on an empty queue the main thread waits for a put
DequeueBlocks ==
  /\ mpc = "get"
  /\ actions_q = <<>>
  /\ FALSE
  /\ UNCHANGED vars

\* get_nowait raises queue.Empty
DequeueEmpty ==
  /\ mpc = "get"
  /\ actions_q = <<>>
  /\ mpc' = "idle"
  /\ calls' = <<>>
  /\ UNCHANGED <<env, actions_q, i, btn, pressed, stopped, applied, pipeline>>

\* pyboy.button(btn, True)
Press ==
  /\ mpc = "press"
  /\ pressed' = pressed \cup {btn}
  /\ applied' = Append(applied, btn)
  /\ i' = 0
  /\ mpc' = "held"
  /\ calls' = Append(calls, "down")
  /\ UNCHANGED <<env, actions_q, btn, stopped, pipeline>>

\* the steps with the button held
HeldTick ==
  /\ mpc = "held"
  /\ i < HoldTicks(variant)
  /\ Tick
  /\ IF Returns THEN mpc' = "done" /\ i' = i
     ELSE /\ i' = i + 1
          /\ mpc' = IF i + 1 = HoldTicks(variant) THEN "release" ELSE "held"
  /\ calls' = Append(calls, "tick")
  /\ UNCHANGED <<env, actions_q, btn, pressed, applied, pipeline>>

\* a release that leaves the button down
ReleaseNothing ==
  /\ mpc = "release"
  /\ pressed' = pressed
  /\ calls' = Append(calls, "up")
  /\ i' = 0
  /\ mpc' = IF ReleaseTicks(variant) = 0 THEN "get" ELSE "released"
  /\ UNCHANGED <<env, actions_q, btn, stopped, applied, pipeline>>

\* pyboy.button(btn, False)
Release ==
  /\ mpc = "release"
  /\ pressed' = pressed \ {btn}
  /\ i' = 0
  /\ mpc' = IF ReleaseTicks(variant) = 0 THEN "get" ELSE "released"
  /\ calls' = Append(calls, "up")
  /\ UNCHANGED <<env, actions_q, btn, stopped, applied, pipeline>>

\* the steps after the release
ReleasedTick ==
  /\ mpc = "released"
  /\ i < ReleaseTicks(variant)
  /\ Tick
  /\ IF Returns THEN mpc' = "done" /\ i' = i
     ELSE /\ i' = i + 1
          /\ mpc' = IF i + 1 = ReleaseTicks(variant) THEN "get" ELSE "released"
  /\ calls' = Append(calls, "tick")
  /\ UNCHANGED <<env, actions_q, btn, pressed, applied, pipeline>>

\* except queue.Empty: pyboy.tick()
IdleTick ==
  /\ mpc = "idle"
  /\ Tick
  /\ mpc' = IF Returns THEN "done" ELSE "get"
  /\ calls' = Append(calls, "tick")
  /\ UNCHANGED <<env, actions_q, i, btn, pressed, applied, pipeline>>

Main ==
  \/ WarmupTick
  \/ Dequeue \/ DequeueEmpty \/ Press
  \/ HeldTick \/ Release \/ ReleasedTick
  \/ IdleTick

\* The pipeline threads alone: they share nothing with the main thread but
\* the queue, which they only append to.
NextPipeline == Listener \/ Aggregator

Next == Listener \/ Aggregator \/ Main

Spec == Init /\ [][Next]_vars
SpecPipeline == InitPipeline /\ [][NextPipeline]_vars
SpecWeighted == InitWeighted /\ [][NextPipeline]_vars

\* The main thread is never starved: whenever it can take a step it
\* eventually takes one.  Nothing is assumed of the other two threads.
SpecFair == Init /\ [][Next]_vars /\ WF_vars(Main)

\* ==================================================================== claims
\* The eight button names by command index, written out independently of the
\* program's table.
ExpectedButton(c) ==
  IF c \in 0..7
  THEN <<"up", "down", "left", "right", "a", "b", "start", "select">>[c + 1]
  ELSE "no action"

RECURSIVE ExpectedQueue(_)
ExpectedQueue(ds) ==
  IF ds = <<>> THEN <<>>
  ELSE (IF Head(ds) \in 0..7 THEN <<ExpectedButton(Head(ds))>> ELSE <<>>)
         \o ExpectedQueue(Tail(ds))

CountIn(t, k) ==
  LET at == {j \in 1..Len(t) : t[j].k = k}
  IN IF at = {} THEN 0 ELSE t[CHOOSE j \in at : TRUE].n

ArgMaxOf(t, k) ==
  /\ k \in TallyKeys(t)
  /\ \A j \in 1..Len(t) : CountIn(t, k) >= t[j].n

Occurrences(w, c) == Cardinality({j \in 1..Len(w) : w[j] = c})
FirstAt(w, c) == CHOOSE j \in 1..Len(w) : w[j] = c /\ \A m \in 1..(j - 1) : w[m] # c

\* C1: in windowed mode every aggregator tick appends at most one action, and
\* an appended action is the button of an index whose count in the tally read
\* at that tick is at least the count of every other index in it.
C1_OneWinnerPerTick ==
  /\ [](variant = "windowed" => Len(enqueued) <= ticks)
  /\ [][(variant = "windowed" /\ enqueued' # enqueued) =>
          /\ apc = "emit" /\ apc' = "sleep"
          /\ enqueued' = Append(enqueued, ExpectedButton(cmd_idx))
          /\ ArgMaxOf(snapshot, cmd_idx)]_vars

\* votes [2,2,5] of one cycle, one tick, a single "left" on the queue
C1_Witness ==
  /\ variant = "windowed"
  /\ decoded = <<2, 2, 5>>
  /\ ticks = 1
  /\ drained = 3
  /\ enqueued = <<"left">>

\* C2: in the chaos and minimal variants the buttons put on the queue are, in
\* order, the buttons of the decoded command indices that lie in 0..7, one
\* per decoded log (the log being applied is not yet on the queue).
C2_ChaosKeepsDecodeOrder ==
  variant \in {"chaos", "minimal"} =>
    enqueued = ExpectedQueue(IF lpc = "put"
                             THEN SubSeq(decoded, 1, Len(decoded) - 1)
                             ELSE decoded)

C2_Witness ==
  /\ variant = "chaos"
  /\ decoded = <<2, 2, 5>>
  /\ enqueued = <<"left", "left", "b">>

\* C3: after a cycle whose head read or log fetch raised, the cursor is the
\* one the cycle began with, and the next fetch asks for the range from that
\* cursor up to the head it read.
C3_CursorKeptOnFetchError ==
  lastError \in {"head", "get_logs"} =>
    /\ last_block = errCursor
    /\ query # <<>> =>
         /\ query.fromBlock = errCursor
         /\ query.toBlock = latest
         /\ query.fromBlock <= query.toBlock

C3_Witness ==
  /\ lastError = "get_logs"
  /\ lpc = "iterate"
  /\ query # <<>>
  /\ query.fromBlock = errCursor
  /\ query.toBlock > errCursor

\* C4: a cycle that ends in the except branch has applied none of its logs:
\* no tally increment (windowed) and no put (chaos, minimal) since it began.
C4_FailedCycleAppliesNothing ==
  lpc = "backoff" =>
    IF variant = "windowed"
    THEN counted = cycleStart.counted
    ELSE Len(enqueued) = cycleStart.puts

\* C5: a log that fails to decode does not abort the batch: when the listener
\* is in the except branch because of it, no other log of the batch is left
\* unapplied.
C5_DecodeErrorKeepsBatch ==
  (lpc = "backoff" /\ lastError = "decode") => Len(logs) = 1

\* C6: once an emulator step has signalled termination the main loop does
\* nothing more: it dequeues nothing, presses and releases nothing and steps
\* the emulator no further.
C6_TerminatedIsAbsorbing ==
  [][stopped => /\ UNCHANGED <<mpc, i, btn, pressed, applied, stopped>>
                /\ Len(actions_q') >= Len(actions_q)]_vars

\* C7: the listener's increment and the aggregator's read-and-clear exclude
\* each other: they are never both inside the lock, the tally the aggregator
\* clears is the one it read, and every counted vote is either still in the
\* tally or was drained by a tick.
C7_TallyMutualExclusion ==
  variant = "windowed" =>
    /\ ~(lpc = "increment" /\ apc \in {"locked", "clear"})
    /\ apc = "clear" => tally = snapshot
    /\ counted = TallyTotal(tally) + drained

\* the aggregator is between its read and its clear while the listener waits
\* for the lock with a decoded vote
C7_Witness ==
  /\ variant = "windowed"
  /\ apc = "clear"
  /\ lpc = "lock"
  /\ drained = 1
  /\ counted = 2

\* C8: every element of the action queue, and every element ever put on it,
\* is one of the eight button names.
C8_QueueHoldsButtons ==
  /\ \A j \in 1..Len(actions_q) : actions_q[j] \in Buttons
  /\ \A j \in 1..Len(enqueued) : enqueued[j] \in Buttons

\* a vote for the unmapped index 8 was applied and left nothing on the queue
C8_Witness ==
  /\ variant = "chaos"
  /\ lpc = "iterate"
  /\ decoded = <<8, 2>>
  /\ actions_q = <<"left">>

\* C9: every key of the tally is a command index in 0..7.
C9_TallyKeysMapped == \A k \in TallyKeys(tally) : k \in 0..7

\* C10: the winner an aggregator tick reads is, among the indices with the
\* highest number of votes in the window, the one whose first vote of the
\* window was tallied first.
C10_TieGoesToFirstVoted ==
  (variant = "windowed" /\ apc = "clear") =>
    /\ \E j \in 1..Len(window) : window[j] = cmd_idx
    /\ \A j \in 1..Len(window) :
         LET c == window[j]
         IN /\ Occurrences(window, c) <= Occurrences(window, cmd_idx)
            /\ Occurrences(window, c) = Occurrences(window, cmd_idx)
                 => FirstAt(window, cmd_idx) <= FirstAt(window, c)

\* 5 and 2 tied at one vote each, 5 voted first
C10_Witness ==
  /\ variant = "windowed"
  /\ apc = "clear"
  /\ window = <<5, 2>>
  /\ cmd_idx = 5

\* C11: an aggregator tick that finds the tally empty releases the lock and
\* goes back to sleep: neither its entry into the lock nor its `continue`
\* changes the tally, the queue, what was ever put on it, or the cursor.
C11_EmptyTickChangesNothing ==
  [][((apc = "sleep" /\ apc' = "locked") \/ (apc = "locked" /\ tally = <<>> /\ apc' # apc))
       => /\ UNCHANGED <<tally, actions_q, enqueued, last_block, ticks, drained>>
          /\ apc = "locked" => apc' = "sleep" /\ tally_lock' = "free"]_vars

\* an empty tick is inside the lock after an earlier tick had emitted "left"
C11_Witness ==
  /\ variant = "windowed"
  /\ apc = "locked"
  /\ tally = <<>>
  /\ ticks = 1
  /\ actions_q = <<"left">>

\* C12: the cursor never decreases; after the start-up read it changes only
\* in the step that ends a cycle whose logs were fetched and all iterated,
\* and it becomes the head read in that cycle plus one.
C12_CursorMonotone ==
  [][lpc # "start" =>
       /\ last_block' >= last_block
       /\ last_block' # last_block =>
            /\ lpc = "iterate" /\ logs = <<>> /\ lpc' = "sleep"
            /\ query # <<>>
            /\ last_block' = latest + 1]_vars

\* a cycle that read a head above the cursor has just advanced it
C12_Witness ==
  /\ lpc = "sleep"
  /\ query # <<>>
  /\ last_block = latest + 1
  /\ cycleStart.cursor < latest

\* C13: what the main loop has pressed, followed by the action it holds
\* dequeued and by the queue, is exactly what was put on the queue, in order
\* (nothing applied twice, skipped or reordered); and unless the emulator
\* signals termination, the n-th action put on the queue is eventually pressed.
InFlight == IF mpc = "press" THEN <<btn>> ELSE <<>>

C13_AppliedIsPrefixOfQueued ==
  /\ [](enqueued = applied \o InFlight \o actions_q)
  /\ \A n \in 1..MaxSystemPassVotes :
       (Len(enqueued) >= n) ~> (Len(applied) >= n \/ stopped)

\* two different queued actions have been pressed, in the order they were queued
C13_Witness ==
  /\ applied = <<"left", "b">>
  /\ applied = enqueued
  /\ actions_q = <<>>
  /\ ~stopped

\* C14: the emulator calls made for a dequeued action are, in order, button
\* down, H steps, button release, R steps, with (H, R) = (6, 2) in the
\* windowed variant and (1, 1) in the chaos and minimal variants.
ClaimedHold(v) == IF v = "windowed" THEN 6 ELSE 1
ClaimedRelease(v) == IF v = "windowed" THEN 2 ELSE 1
Steps(n) == [j \in 1..n |-> "tick"]

C14_PressHoldReleaseOrder ==
  (mpc = "get" /\ calls # <<>> /\ calls[1] = "down") =>
    calls = <<"down">> \o Steps(ClaimedHold(variant)) \o <<"up">>
              \o Steps(ClaimedRelease(variant))

\* C15: no error ends the listener thread, not even one raised by the first
\* read of the chain head.
C15_ListenerNeverDies == lpc # "dead"

\* C16: during the warm-up nothing is dequeued or pressed; the main loop is
\* entered after exactly 240 steps; and a warm-up step that signals
\* termination takes the main thread to its end, never into the main loop.
C16_WarmupBeforeFirstAction ==
  [][mpc = "warmup" =>
       /\ applied' = <<>> /\ pressed' = {}
       /\ Len(actions_q') >= Len(actions_q)
       /\ mpc' = "get" => i' = WARMUP_TICKS
       /\ stopped' => mpc' = "done"]_vars

\* C17: an iteration of the main loop that finds the queue empty makes
\* exactly one emulator step, and unless the emulator signals termination the
\* main thread steps it again and again, whatever the other threads do.
TickStep == WarmupTick \/ HeldTick \/ ReleasedTick \/ IdleTick

C17_EmulatorKeepsStepping ==
  /\ []((mpc = "get" /\ calls # <<>> /\ calls[1] = "tick") => calls = <<"tick">>)
  /\ (<>stopped) \/ []<><<TickStep>>_vars

\* an idle iteration has ended while the listener thread is dead
C17_Witness ==
  /\ mpc = "get"
  /\ calls = <<"tick">>
  /\ lpc = "dead"
  /\ ~stopped

\* C18: at most one button is down at any time, none while the main thread
\* warms up, dequeues or idles, and while a button is held it is the one
\* dequeued last.
C18_OneButtonAtATime ==
  /\ Cardinality(pressed) <= 1
  /\ mpc \in {"warmup", "get", "idle", "press", "released"} => pressed = {}
  /\ mpc \in {"held", "release"} => pressed = {btn}

\* the second action is held after the first, a different button, was released
C18_Witness ==
  /\ mpc = "held"
  /\ applied = <<"left", "b">>
  /\ pressed = {"b"}

\* C19: once the head was read at start-up and while no cycle has been abandoned, the ranges fetched start at the
\* head read at start-up, each has fromBlock <= toBlock and starts one block
\* after the previous one ends, the cursor is where the next range starts,
\* and a cycle whose head is below the cursor fetches nothing and keeps the
\* cursor.
C19_RangesContiguous ==
  (clean /\ startHead >= 0) =>
    /\ \A j \in 1..Len(queried) :
         /\ queried[j].fromBlock <= queried[j].toBlock
         /\ queried[j].fromBlock =
              IF j = 1 THEN startHead ELSE queried[j - 1].toBlock + 1
    /\ last_block =
         IF queried = <<>> THEN startHead
         ELSE IF query # <<>> /\ lpc # "sleep"
              THEN queried[Len(queried)].fromBlock
              ELSE queried[Len(queried)].toBlock + 1
    /\ (lpc = "sleep" /\ query = <<>>) =>
         latest < last_block /\ last_block = cycleStart.cursor

\* blocks 0..2 fetched in two ranges, [0,0] and [1,2]
C19_Witness ==
  /\ clean
  /\ lpc = "sleep"
  /\ queried = <<[fromBlock |-> 0, toBlock |-> 0], [fromBlock |-> 1, toBlock |-> 2]>>
  /\ last_block = 3

\* C20: the weight of a vote plays no part: the tally holds, for each index,
\* the number of votes tallied for it in the window, and in the chaos and
\* minimal variants the buttons put on the queue are those of the decoded
\* command indices, one each, whatever weights the logs carried.
VotesApplied ==
  IF lpc \in {"lock", "increment", "put"}
  THEN SubSeq(decoded, 1, Len(decoded) - 1)
  ELSE decoded

C20_WeightIgnored ==
  /\ variant = "windowed" =>
       /\ counted = Len(VotesApplied)
       /\ \A c \in CmdVals : CountIn(tally, c) = Occurrences(window, c)
  /\ variant # "windowed" => enqueued = ExpectedQueue(VotesApplied)

\* a vote of weight 3 and a vote of weight 1 for the same index count 2
C20_Witness ==
  /\ variant = "windowed"
  /\ decodedWeights = <<3, 1>>
  /\ tally = <<[k |-> 2, n |-> 2]>>

====
